---- MODULE Spec2Model ----
(***************************************************************************)
(* Placeholder Replace & Restore (Figma plugin).                           *)
(*                                                                         *)
(* A text element is a sequence of characters with one font per character  *)
(* and one plugin-data blob (the Backup).  Offsets are 0-based as in the   *)
(* JavaScript source; a range [s, e) of the source is SubSeq(x, s+1, e).   *)
(***************************************************************************)
EXTENDS Integers, Sequences, FiniteSets, TLC

VARIABLES
    nodes,              \* element id -> [chars, fonts, backup]
    store,              \* the collection: key -> value ; a key outside its domain has no variable
    iconFontFamily,     \* "" when no icon font is configured
    env,                \* the failures of the host: [lookupRejects, throwing, rejected,
                        \* readThrows, writeThrows]
    calls,              \* log of the engine calls: <<[op, node, pre, ret, err, loadOk]>>
    selection,          \* figma.currentPage.selection: the set of selected elements
    timer,              \* the debounce timer of the selection handler is armed
    lastSelectedNodeId,
    processing,
    featureEnabled,
    proc,               \* the handler invocation ("sel") and the UI message ("ui") in flight
    budget,             \* user events still allowed
    subst,              \* element -> "substituted": a pass substituted values since the last
                        \* restoration; "rescanned": and a later pass found nothing to
                        \* substitute in them; "none" otherwise
    hlog,               \* the newId of every handler invocation that passed the guards
    clean,              \* no invocation was dropped and no UI pass was started so far
    events,             \* the latest handler invocation: its newId, its outcome ("off": the
                        \* feature was off, "busy": the guard was set, "ran"), prev: the
                        \* newId of the invocation before it; and what happened so far:
                        \* busy: an invocation met the guard set, off: the feature was
                        \* switched off, forced: a UI run or restore message was handled,
                        \* threw: a pass awaited by the handler threw
    produced,           \* element -> the text left by the latest substitution pass that
                        \* wrote a Backup on it
    orig                \* the elements as they were initially

runtimeVars == <<selection, timer, lastSelectedNodeId, processing, featureEnabled,
                 proc, budget, subst, hlog, clean, events, produced, orig>>

vars == <<nodes, store, env, iconFontFamily, calls, runtimeVars>>

(***************************************************************************)
(* Bounds of the model                                                     *)
(***************************************************************************)
MaxLen == 3
MaxCalls == 3
MaxEvents == 4
MaxScanLen == 5
MaxCycle == 6

(***************************************************************************)
(* Characters, fonts, values                                               *)
(***************************************************************************)
\* [a-zA-Z0-9_\-\/] restricted to the characters the model uses
KeyChars == {"a", "b", "c", "i", "n", "o", "X", "Y", "/", "_", "-"}

Elements == {"A", "B"}
Null == "null"

Fonts == {"F1", "F2"}
IconFont == "Icons"
Mixed == "mixed"
NoFont == "nofont"

Min(a, b) == IF a < b THEN a ELSE b

\* x.slice(s, e) for 0 <= s
Slice(x, s, e) == SubSeq(x, s + 1, Min(e, Len(x)))

Repeat(v, n) == [i \in 1..n |-> v]

(***************************************************************************)
(* Placeholder scanner: PLACEHOLDER_REGEX applied with exec() in a loop:   *)
(* "@", a run of one or more key characters, then any number of groups     *)
(* made of "." and a run of one or more key characters, all greedy.        *)
(* Positions in RunEnd/SegsEnd/ScanFrom are 1-based indexes into text.     *)
(***************************************************************************)
IsKeyChar(c) == c \in KeyChars

\* last index of the maximal run of key characters starting at q (q-1: none)
RECURSIVE RunEnd(_, _)
RunEnd(text, q) ==
    IF q <= Len(text) /\ IsKeyChar(text[q]) THEN RunEnd(text, q + 1) ELSE q - 1

\* last index of the maximal run of key characters and dots starting at q
RECURSIVE RunEndDot(_, _)
RunEndDot(text, q) ==
    IF q <= Len(text) /\ (IsKeyChar(text[q]) \/ text[q] = ".")
    THEN RunEndDot(text, q + 1) ELSE q - 1

\* the dot taken as one more key character
SegsEndDotInClass(text, e) == RunEndDot(text, e + 1)

\* the greedy (?:\.[...]+)* after a match that ends at index e
RECURSIVE SegsEnd(_, _)
SegsEnd(text, e) ==
    IF e + 1 <= Len(text) /\ text[e + 1] = "." /\ RunEnd(text, e + 2) >= e + 2
    THEN SegsEnd(text, RunEnd(text, e + 2))
    ELSE e

\* the matches found from index p on; exec() resumes at the end of a match
RECURSIVE ScanFrom(_, _)
ScanFrom(text, p) ==
    IF p > Len(text) THEN <<>>
    ELSE IF text[p] = "@" /\ RunEnd(text, p + 1) >= p + 1
    THEN LET e == SegsEnd(text, RunEnd(text, p + 1))
         IN  <<[key   |-> SubSeq(text, p + 1, e),
                start |-> p - 1,
                len   |-> e - p + 1,
                text  |-> SubSeq(text, p, e)]>> \o ScanFrom(text, e + 1)
    ELSE ScanFrom(text, p + 1)

Scan(text) == ScanFrom(text, 1)

(***************************************************************************)
(* Variable lookup                                                         *)
(***************************************************************************)
\* a host in which no call fails
NoFaults == [lookupRejects |-> FALSE, throwing |-> {}, rejected |-> {},
             readThrows |-> FALSE, writeThrows |-> FALSE]

\* figma.variables.getLocalVariablesAsync rejects: findStringVariable has no
\* try/catch, so the rejection reaches replacePlaceholdersInNode
LookupRejects == env.lookupRejects

\* vars.find(...) answers a variable (not null)
FindStringVariable(st, key) == key \in DOMAIN st

\* "" when resolveForConsumer throws (the catch) or answers a falsy value
ResolveVariableValue(st, key) == IF key \in env.throwing THEN <<>> ELSE st[key]

\* node.setRangeFontName(_, _, font) throws
RangeWriteRejected(font) == font \in env.rejected

(***************************************************************************)
(* Host text-node API (ranges are 0-based, end exclusive)                  *)
(***************************************************************************)
DefaultFont == "F1"

\* the font "BEFORE" gives to characters inserted at start
InheritFont(fonts, start) ==
    IF start > 0 /\ start <= Len(fonts) THEN fonts[start]
    ELSE IF Len(fonts) > 0 THEN fonts[1]
    ELSE DefaultFont

CanInsert(n, start) == start >= 0 /\ start <= Len(n.chars)

InsertCharacters(n, start, txt) ==
    [n EXCEPT !.chars = Slice(n.chars, 0, start) \o txt \o Slice(n.chars, start, Len(n.chars)),
              !.fonts = Slice(n.fonts, 0, start)
                        \o Repeat(InheritFont(n.fonts, start), Len(txt))
                        \o Slice(n.fonts, start, Len(n.fonts))]

CanDelete(n, s, e) == s >= 0 /\ s <= e /\ e <= Len(n.chars)

DeleteCharacters(n, s, e) ==
    [n EXCEPT !.chars = Slice(n.chars, 0, s) \o Slice(n.chars, e, Len(n.chars)),
              !.fonts = Slice(n.fonts, 0, s) \o Slice(n.fonts, e, Len(n.fonts))]

CanRange(n, s, e) == s >= 0 /\ s < e /\ e <= Len(n.chars)

SetRangeFontName(n, s, e, font) ==
    [n EXCEPT !.fonts = [i \in 1..Len(n.fonts) |->
                            IF i > s /\ i <= e THEN font ELSE n.fonts[i]]]

GetRangeFontName(n, s, e) ==
    IF \A i \in (s + 1)..e : n.fonts[i] = n.fonts[s + 1] THEN n.fonts[s + 1] ELSE Mixed

\* node.characters = txt
SetCharacters(n, txt) ==
    [n EXCEPT !.chars = txt, !.fonts = Repeat(InheritFont(n.fonts, 0), Len(txt))]

(***************************************************************************)
(* Backup store (node plugin data under PLUGIN_DATA_KEY)                   *)
(***************************************************************************)
NoSnapshot == <<>>

\* the empty string stored by clearNodeBackup
NoBackup == [kind |-> "none", original |-> <<>>, snapshot |-> NoSnapshot,
             replacements |-> <<>>]

\* a blob that JSON.parse rejects
CorruptBackup == [kind |-> "corrupt", original |-> <<>>, snapshot |-> NoSnapshot,
                  replacements |-> <<>>]

\* node.getPluginData throws / node.setPluginData throws
ReadThrows == env.readThrows
WriteThrows == env.writeThrows

\* payload of the offset-tracked engine; a failing write is caught and leaves
\* the blob as it was
SaveNodeBackup(n, originalText, snapshot, replacements) ==
    IF WriteThrows THEN n
    ELSE [n EXCEPT !.backup = [kind |-> "records", original |-> originalText,
                               snapshot |-> snapshot, replacements |-> replacements]]

\* payload written by the whole-text engine: no replacements array
LegacyBackup(originalText, snapshot) ==
    [kind |-> "legacy", original |-> originalText, snapshot |-> snapshot,
     replacements |-> <<>>]

\* a failing write is caught and leaves the blob as it was
ClearNodeBackup(n) == IF WriteThrows THEN n ELSE [n EXCEPT !.backup = NoBackup]

\* a read that answers the stored payload whether or not the host call or the
\* parse fails
ReadNodeBackupUnguarded(n) == n.backup

\* readNodeBackup: the parsed blob; null (NoBackup) when the blob is empty, when
\* getPluginData throws and when JSON.parse throws
ReadNodeBackup(n) ==
    IF ReadThrows \/ n.backup.kind = "corrupt" THEN NoBackup ELSE n.backup

\* readNodeBackup answers a payload
HasBackup(n) == ReadNodeBackup(n).kind # "none"

(***************************************************************************)
(* Substitution engine (offset-tracked): replacePlaceholdersInNode         *)
(***************************************************************************)
IconPrefix == <<"i", "c", "o", "n", "/">>

\* mm.key.startsWith("icon/")
IsIconKey(key) == Len(key) >= Len(IconPrefix) /\ SubSeq(key, 1, Len(IconPrefix)) = IconPrefix

\* the locals of the loop over the matches
\* (err: an awaited lookup rejected, the pass throws)
EmptyAcc == [snapshot |-> NoSnapshot, replacements |-> <<>>, ops |-> <<>>,
             runningDelta |-> 0, hasIconReplacement |-> FALSE, err |-> FALSE]

\* originalFont: the font of the placeholder's first character, null when the
\* host call throws or answers figma.mixed
CaptureFont(n, mm) ==
    IF CanRange(n, mm.start, mm.start + 1)
    THEN LET f == GetRangeFontName(n, mm.start, mm.start + 1)
         IN  IF f # Mixed THEN f ELSE NoFont
    ELSE NoFont

\* ResolveStep with a missing variable resolved to the empty string
ResolveStepAbsentAsEmpty(acc, n, st, mm) ==
    LET resolvedValue == IF FindStringVariable(st, mm.key)
                         THEN ResolveVariableValue(st, mm.key) ELSE <<>>
        originalFont  == CaptureFont(n, mm)
    IN  [snapshot     |-> (mm.key :> resolvedValue) @@ acc.snapshot,
         replacements |-> Append(acc.replacements,
                             [start        |-> mm.start + acc.runningDelta,
                              len          |-> Len(resolvedValue),
                              originalText |-> mm.text,
                              originalFont |-> originalFont]),
         ops          |-> Append(acc.ops,
                             [start        |-> mm.start,
                              removeLen    |-> mm.len,
                              insertText   |-> resolvedValue,
                              isIcon       |-> IsIconKey(mm.key),
                              originalFont |-> originalFont]),
         runningDelta |-> acc.runningDelta + Len(resolvedValue) - mm.len,
         hasIconReplacement |-> acc.hasIconReplacement \/ IsIconKey(mm.key),
         err          |-> FALSE]

\* ResolveStep with the record placed at the offset of the match in the text
\* before the pass
ResolveStepUnshifted(acc, n, st, mm) ==
    IF ~FindStringVariable(st, mm.key) THEN acc
    ELSE LET resolvedValue == ResolveVariableValue(st, mm.key)
             originalFont  == CaptureFont(n, mm)
         IN  [snapshot     |-> (mm.key :> resolvedValue) @@ acc.snapshot,
              replacements |-> Append(acc.replacements,
                                  [start        |-> mm.start,
                                   len          |-> Len(resolvedValue),
                                   originalText |-> mm.text,
                                   originalFont |-> originalFont]),
              ops          |-> Append(acc.ops,
                                  [start        |-> mm.start,
                                   removeLen    |-> mm.len,
                                   insertText   |-> resolvedValue,
                                   isIcon       |-> IsIconKey(mm.key),
                                   originalFont |-> originalFont]),
              runningDelta |-> acc.runningDelta + Len(resolvedValue) - mm.len,
              hasIconReplacement |-> acc.hasIconReplacement \/ IsIconKey(mm.key),
              err          |-> FALSE]

\* one iteration of "for (const mm of matches)"
ResolveStep(acc, n, st, mm) ==
    IF acc.err THEN acc
    ELSE IF LookupRejects THEN [acc EXCEPT !.err = TRUE]
    ELSE IF ~FindStringVariable(st, mm.key) THEN acc
    ELSE LET resolvedValue == ResolveVariableValue(st, mm.key)
             originalFont  == CaptureFont(n, mm)
             isIcon        == IsIconKey(mm.key)
         IN  [snapshot     |-> (mm.key :> resolvedValue) @@ acc.snapshot,
              replacements |-> Append(acc.replacements,
                                  [start        |-> mm.start + acc.runningDelta,
                                   len          |-> Len(resolvedValue),
                                   originalText |-> mm.text,
                                   originalFont |-> originalFont]),
              ops          |-> Append(acc.ops,
                                  [start        |-> mm.start,
                                   removeLen    |-> mm.len,
                                   insertText   |-> resolvedValue,
                                   isIcon       |-> isIcon,
                                   originalFont |-> originalFont]),
              runningDelta |-> acc.runningDelta + Len(resolvedValue) - mm.len,
              hasIconReplacement |-> acc.hasIconReplacement \/ isIcon,
              err          |-> FALSE]

\* the whole loop, with no other code running between its iterations
RECURSIVE ResolveLoop(_, _, _, _, _)
ResolveLoop(acc, n, st, matches, i) ==
    IF i > Len(matches) THEN acc
    ELSE ResolveLoop(ResolveStep(acc, n, st, matches[i]), n, st, matches, i + 1)

\* the font written on the inserted span
InsertedFont(op, iconFontLoaded) ==
    IF op.isIcon /\ iconFontLoaded THEN IconFont ELSE op.originalFont

\* one iteration of the right-to-left loop; run = [n, err], err: a host call threw
ApplyOp(run, op, iconFontLoaded) ==
    IF run.err THEN run
    ELSE LET ins == Len(op.insertText)
             n1  == IF ins > 0 THEN InsertCharacters(run.n, op.start, op.insertText) ELSE run.n
             f   == InsertedFont(op, iconFontLoaded)
             n2  == IF ins > 0 /\ f # NoFont /\ ~RangeWriteRejected(f)
                    THEN SetRangeFontName(n1, op.start, op.start + ins, f) ELSE n1
             delStart == op.start + ins
         IN  IF ins > 0 /\ ~CanInsert(run.n, op.start) THEN [n |-> run.n, err |-> TRUE]
             \* the icon font is written outside any try/catch
             ELSE IF ins > 0 /\ op.isIcon /\ iconFontLoaded /\ RangeWriteRejected(f)
             THEN [n |-> n1, err |-> TRUE]
             ELSE IF ~CanDelete(n2, delStart, delStart + op.removeLen)
             THEN [n |-> n2, err |-> TRUE]
             ELSE [n |-> DeleteCharacters(n2, delStart, delStart + op.removeLen),
                   err |-> FALSE]

\* the loop over ops run left to right
RECURSIVE ApplyOpsUp(_, _, _, _)
ApplyOpsUp(run, ops, k, iconFontLoaded) ==
    IF k > Len(ops) THEN run
    ELSE ApplyOpsUp(ApplyOp(run, ops[k], iconFontLoaded), ops, k + 1, iconFontLoaded)

ApplyOpsForward(run, ops, i, iconFontLoaded) == ApplyOpsUp(run, ops, 1, iconFontLoaded)

\* for (let i = ops.length - 1; i >= 0; i--)
RECURSIVE ApplyOps(_, _, _, _)
ApplyOps(run, ops, i, iconFontLoaded) ==
    IF i < 1 THEN run
    ELSE ApplyOps(ApplyOp(run, ops[i], iconFontLoaded), ops, i - 1, iconFontLoaded)

\* the loop over ops with no Backup saved before it
ApplyWithoutBackup(n, text, acc, iconFontLoaded) ==
    ApplyOps([n |-> n, err |-> FALSE], acc.ops, Len(acc.ops), iconFontLoaded)

\* saveNodeBackup followed by the loop over ops: the code after the last await
SaveAndApply(n, text, acc, iconFontLoaded) ==
    ApplyOps([n |-> SaveNodeBackup(n, text, acc.snapshot, acc.replacements), err |-> FALSE],
             acc.ops, Len(acc.ops), iconFontLoaded)

\* the host calls one iteration of the loop over ops makes, in order
OpSteps(op, iconFontLoaded) ==
    (IF Len(op.insertText) > 0 THEN <<[kind |-> "insert", op |-> op]>> ELSE <<>>)
    \o (IF Len(op.insertText) > 0 /\ InsertedFont(op, iconFontLoaded) # NoFont
        THEN <<[kind |-> "font", op |-> op]>> ELSE <<>>)
    \o <<[kind |-> "delete", op |-> op]>>

\* the host calls of the whole right-to-left loop, in order
RECURSIVE AllSteps(_, _, _)
AllSteps(ops, i, iconFontLoaded) ==
    IF i < 1 THEN <<>>
    ELSE OpSteps(ops[i], iconFontLoaded) \o AllSteps(ops, i - 1, iconFontLoaded)

\* one host call of the loop
DoStep(run, step, iconFontLoaded) ==
    LET op  == step.op
        ins == Len(op.insertText)
        f   == InsertedFont(op, iconFontLoaded)
    IN  IF run.err THEN run
        ELSE IF step.kind = "insert"
        THEN IF CanInsert(run.n, op.start)
             THEN [n |-> InsertCharacters(run.n, op.start, op.insertText), err |-> FALSE]
             ELSE [n |-> run.n, err |-> TRUE]
        ELSE IF step.kind = "font"
        THEN IF ~RangeWriteRejected(f)
             THEN [n |-> SetRangeFontName(run.n, op.start, op.start + ins, f), err |-> FALSE]
             ELSE [n |-> run.n, err |-> op.isIcon /\ iconFontLoaded]
        ELSE IF CanDelete(run.n, op.start + ins, op.start + ins + op.removeLen)
        THEN [n |-> DeleteCharacters(run.n, op.start + ins, op.start + ins + op.removeLen),
              err |-> FALSE]
        ELSE [n |-> run.n, err |-> TRUE]

\* the first k host calls of the loop
RECURSIVE RunSteps(_, _, _, _, _)
RunSteps(run, steps, j, k, iconFontLoaded) ==
    IF j > k THEN run
    ELSE RunSteps(DoStep(run, steps[j], iconFontLoaded), steps, j + 1, k, iconFontLoaded)

\* saveNodeBackup followed by the first k host calls of the loop over ops: the
\* pass is cut short (the plugin is closed, the host crashes) after them
SaveAndApplyPrefix(n, text, acc, iconFontLoaded, k) ==
    RunSteps([n |-> SaveNodeBackup(n, text, acc.snapshot, acc.replacements), err |-> FALSE],
             AllSteps(acc.ops, Len(acc.ops), iconFontLoaded), 1, k, iconFontLoaded)

\* iconFontLoaded: the icon font is asked for and figma.loadFontAsync succeeds
IconFontLoaded(acc, family, loadOk) == acc.hasIconReplacement /\ family # "" /\ loadOk

\* a pass that returns without clearing the Backup when it has nothing to replace
ReplaceKeepingBackup(n, st, family, loadOk) ==
    LET text    == n.chars
        matches == Scan(text)
        acc     == ResolveLoop(EmptyAcc, n, st, matches, 1)
        run     == SaveAndApply(n, text, acc, IconFontLoaded(acc, family, loadOk))
    IN  IF Len(matches) = 0 \/ acc.err \/ Len(acc.ops) = 0
        THEN [n |-> n, ret |-> FALSE, err |-> acc.err]
        ELSE [n |-> run.n, ret |-> ~run.err, err |-> run.err]

\* a whole pass with nothing else running at its awaits:
\* [n: the element after the pass, ret: changed, err: the pass threw]
ReplacePlaceholdersInNode(n, st, family, loadOk) ==
    LET text    == n.chars
        matches == Scan(text)
        acc     == ResolveLoop(EmptyAcc, n, st, matches, 1)
        run     == SaveAndApply(n, text, acc, IconFontLoaded(acc, family, loadOk))
    IN  IF Len(matches) = 0 THEN [n |-> ClearNodeBackup(n), ret |-> FALSE, err |-> FALSE]
        ELSE IF acc.err THEN [n |-> n, ret |-> FALSE, err |-> TRUE]
        ELSE IF Len(acc.ops) = 0 THEN [n |-> ClearNodeBackup(n), ret |-> FALSE, err |-> FALSE]
        ELSE [n |-> run.n, ret |-> ~run.err, err |-> run.err]

(***************************************************************************)
(* Restoration engine: restorePlaceholdersInNode                           *)
(***************************************************************************)
\* r placed behind every element whose start is >= r.start
RECURSIVE InsertDesc(_, _)
InsertDesc(r, sorted) ==
    IF sorted = <<>> THEN <<r>>
    ELSE IF Head(sorted).start >= r.start THEN <<Head(sorted)>> \o InsertDesc(r, Tail(sorted))
    ELSE <<r>> \o sorted

\* [...replacements].sort((a, b) => b.start - a.start): a stable sort
RECURSIVE SortDesc(_)
SortDesc(reps) ==
    IF reps = <<>> THEN <<>>
    ELSE InsertDesc(reps[Len(reps)], SortDesc(SubSeq(reps, 1, Len(reps) - 1)))

\* one iteration of "for (const rep of reps)"
RestoreRep(run, rep) ==
    IF run.err THEN run
    ELSE LET plen == Len(rep.originalText)
             n1   == InsertCharacters(run.n, rep.start, rep.originalText)
             n2   == IF rep.originalFont # NoFont /\ CanRange(n1, rep.start, rep.start + plen)
                        /\ ~RangeWriteRejected(rep.originalFont)
                     THEN SetRangeFontName(n1, rep.start, rep.start + plen, rep.originalFont)
                     ELSE n1
             delStart == rep.start + plen
         IN  IF ~CanInsert(run.n, rep.start) THEN [n |-> run.n, err |-> TRUE]
             ELSE IF ~CanDelete(n2, delStart, delStart + rep.len)
             THEN [n |-> n2, err |-> TRUE]
             ELSE [n |-> DeleteCharacters(n2, delStart, delStart + rep.len), err |-> FALSE]

RECURSIVE RestoreReps(_, _, _)
RestoreReps(run, reps, i) ==
    IF i > Len(reps) THEN run
    ELSE RestoreReps(RestoreRep(run, reps[i]), reps, i + 1)

\* the loop over reps with the Backup left in place
ApplyRestoreKeepingBackup(n, reps) == RestoreReps([n |-> n, err |-> FALSE], reps, 1)

\* the loop over reps and the clearNodeBackup after it
ApplyRestore(n, reps) ==
    LET run == RestoreReps([n |-> n, err |-> FALSE], reps, 1)
    IN  IF run.err THEN run ELSE [n |-> ClearNodeBackup(run.n), err |-> FALSE]

\* a restoration that knows only Backups with records
RestoreRecordsOnly(n) ==
    LET backup == ReadNodeBackup(n)
        run    == ApplyRestore(n, SortDesc(backup.replacements))
    IN  IF ~HasBackup(n) THEN [n |-> n, ret |-> FALSE, err |-> FALSE]
        ELSE IF backup.kind = "records" THEN [n |-> run.n, ret |-> ~run.err, err |-> run.err]
        ELSE [n |-> n, ret |-> FALSE, err |-> FALSE]

\* a whole pass with nothing else running at its awaits
RestorePlaceholdersInNode(n) ==
    LET backup == ReadNodeBackup(n)
        run    == ApplyRestore(n, SortDesc(backup.replacements))
    IN  IF ~HasBackup(n) THEN [n |-> n, ret |-> FALSE, err |-> FALSE]
        ELSE IF backup.kind = "records" THEN [n |-> run.n, ret |-> ~run.err, err |-> run.err]
        ELSE IF backup.original # <<>>
        THEN [n |-> ClearNodeBackup(SetCharacters(n, backup.original)),
              ret |-> TRUE, err |-> FALSE]
        ELSE [n |-> n, ret |-> FALSE, err |-> FALSE]


(***************************************************************************)
(* Plugin runtime: selection handler and UI messages                       *)
(***************************************************************************)
Procs == {"sel", "ui"}

\* results, posted: the results array of a UI message and whether its run-result
\* message was posted; sel, touched: the selection when the UI message arrived and
\* the elements whose text or Backup its passes changed
IdleProc == [pc |-> "idle", node |-> Null, text |-> <<>>, matches |-> <<>>, i |-> 0,
             acc |-> EmptyAcc, backup |-> NoBackup, reps |-> <<>>,
             newId |-> Null, phase |-> "", kind |-> "", queue |-> <<>>,
             results |-> <<>>, posted |-> FALSE, sel |-> {}, touched |-> {}]

\* a substitution or restoration pass of p is suspended at an await
InPass(p) == proc[p].pc \in {"rp_resolve", "rp_load", "rs_load", "rs_fonts"}

\* no pass on element e is suspended at an await
Settled(e) == \A p \in Procs : ~(InPass(p) /\ proc[p].node = e)

RuntimeAtRest ==
    /\ selection = {}
    /\ timer = FALSE
    /\ lastSelectedNodeId = Null
    /\ processing = FALSE
    /\ featureEnabled = TRUE
    /\ proc = [p \in Procs |-> IdleProc]
    /\ subst = [e \in Elements |-> "none"]
    /\ hlog = <<>>
    /\ clean = TRUE
    /\ produced = [e \in Elements |-> <<>>]
    /\ events = [newId |-> Null, outcome |-> "none", prev |-> Null,
                 busy |-> FALSE, off |-> FALSE, forced |-> FALSE, threw |-> FALSE]

\* replacePlaceholdersInNode up to its first await (getOrCreateCollection):
\* done when the scan finds no match; rs: the elements scanned with nothing to do
BeginReplace(pr, nds, e) ==
    LET text    == nds[e].chars
        matches == Scan(text)
    IN  IF Len(matches) = 0
        THEN [done |-> TRUE, nds |-> [nds EXCEPT ![e] = ClearNodeBackup(nds[e])], pr |-> pr,
              rs |-> {e}]
        ELSE [done |-> FALSE, nds |-> nds, rs |-> {},
              pr |-> [pr EXCEPT !.pc = "rp_resolve", !.node = e, !.text = text,
                                !.matches = matches, !.i = 1, !.acc = EmptyAcc]]

\* restorePlaceholdersInNode up to its first await (safeLoadFontsForNode):
\* done when there is no Backup
BeginRestore(pr, nds, e) ==
    IF ~HasBackup(nds[e])
    THEN [done |-> TRUE, nds |-> nds, pr |-> pr, rs |-> {}]
    ELSE [done |-> FALSE, nds |-> nds, rs |-> {},
          pr |-> [pr EXCEPT !.pc = "rs_load", !.node = e, !.backup = ReadNodeBackup(nds[e])]]

\* sel.length === 1 && sel[0].type === "TEXT" ? sel[0].id : null
NewId(sel) == IF Cardinality(sel) = 1 THEN CHOOSE e \in sel : TRUE ELSE Null

\* gatherTextNodesFromSelectionOrPage(true): the selected text elements, or every
\* text element of the page when nothing is selected
SeqOfElements(S) ==
    (IF "A" \in S THEN <<"A">> ELSE <<>>) \o (IF "B" \in S THEN <<"B">> ELSE <<>>)

GatherTextNodes(sel) == IF sel # {} THEN SeqOfElements(sel) ELSE SeqOfElements(Elements)

\* handleSelectionChange from "if (newSelectedNode && newId !== lastSelectedNodeId)" on
\* result: [pr, nds, processing, last, rs]
HandlerEditStart(pr, nds, last, rs) ==
    IF pr.newId # Null /\ pr.newId # last
    THEN LET b == BeginRestore([pr EXCEPT !.phase = "start"], nds, pr.newId)
         IN  IF b.done
             THEN [pr |-> IdleProc, nds |-> b.nds, processing |-> FALSE,
                   last |-> pr.newId, rs |-> rs]
             ELSE [pr |-> b.pr, nds |-> b.nds, processing |-> TRUE, last |-> last,
                   rs |-> rs]
    ELSE [pr |-> IdleProc, nds |-> nds, processing |-> FALSE, last |-> pr.newId, rs |-> rs]

\* the handler after its awaited pass returned or threw (catch, finally)
HandlerAfterPass(pr, nds, last, rs) ==
    IF pr.phase = "finish" THEN HandlerEditStart(pr, nds, last, rs)
    ELSE [pr |-> IdleProc, nds |-> nds, processing |-> FALSE, last |-> pr.newId, rs |-> rs]

\* the loop "for (const n of nodes)" of run-on-selection / restore-on-selection,
\* up to the next await
\* results.push({ id: n.id, changed / restored: flag }) of the UI message p
WithResult(p, pr, e, flag) ==
    IF p = "ui" THEN [pr EXCEPT !.results = Append(pr.results, [id |-> e, flag |-> flag])]
    ELSE pr

RECURSIVE UiLoop(_, _, _)
UiLoop(pr, nds, rs) ==
    IF pr.queue = <<>>
    THEN [pr |-> [IdleProc EXCEPT !.results = pr.results, !.posted = TRUE],
          nds |-> nds, rs |-> rs]
    ELSE LET e    == Head(pr.queue)
             rest == [pr EXCEPT !.queue = Tail(pr.queue)]
             b    == IF pr.kind = "run" THEN BeginReplace(rest, nds, e)
                                        ELSE BeginRestore(rest, nds, e)
         IN  IF b.done THEN UiLoop(WithResult("ui", rest, e, FALSE), b.nds, rs \cup b.rs)
             ELSE [pr |-> b.pr, nds |-> b.nds, rs |-> rs]

\* the handler without its finally blocks: a pass that throws ends the
\* invocation with the guard still set
AfterPassNoFinally(p, pr, nds, threw, rs) ==
    IF p = "sel"
    THEN IF threw
         THEN [pr |-> IdleProc, nds |-> nds, processing |-> TRUE,
               last |-> lastSelectedNodeId, rs |-> rs]
         ELSE HandlerAfterPass(pr, nds, lastSelectedNodeId, rs)
    ELSE LET u == IF threw THEN [pr |-> IdleProc, nds |-> nds, rs |-> rs]
                  ELSE UiLoop(pr, nds, rs)
         IN  [pr |-> u.pr, nds |-> u.nds, processing |-> processing,
              last |-> lastSelectedNodeId, rs |-> u.rs]

\* what runs when the pass of p returns (threw: it threw)
\* result: [pr, nds, processing, last, rs]
AfterPass(p, pr, nds, threw, rs) ==
    IF p = "sel" THEN HandlerAfterPass(pr, nds, lastSelectedNodeId, rs)
    ELSE LET u == IF threw THEN [pr |-> IdleProc, nds |-> nds, rs |-> rs]
                  ELSE UiLoop(pr, nds, rs)
         IN  [pr |-> u.pr, nds |-> u.nds, processing |-> processing,
              last |-> lastSelectedNodeId, rs |-> u.rs]

\* sb with the elements of rs that hold substituted values marked as rescanned
MarkRescanned(sb, rs) ==
    [e \in Elements |-> IF e \in rs /\ sb[e] = "substituted" THEN "rescanned" ELSE sb[e]]

\* the elements whose text or Backup differ between nds1 and nds2
Touched(nds1, nds2) ==
    {e \in Elements : nds1[e].chars # nds2[e].chars \/ nds1[e].backup # nds2[e].backup}

Commit(p, w, sb) ==
    /\ proc' = [proc EXCEPT ![p] =
                  IF p = "ui"
                  THEN [w.pr EXCEPT !.kind = proc[p].kind, !.sel = proc[p].sel,
                                    !.touched = proc[p].touched \cup Touched(nodes, w.nds)]
                  ELSE w.pr]
    /\ nodes' = w.nds
    /\ processing' = w.processing
    /\ lastSelectedNodeId' = w.last
    /\ subst' = MarkRescanned(sb, w.rs)

\* the user changes the selection: the host fires selectionchange, which
\* re-arms the debounce timer
SelectionChange ==
    /\ budget > 0
    /\ \E S \in SUBSET Elements :
          /\ S # selection
          /\ selection' = S
    /\ timer' = TRUE
    /\ budget' = budget - 1
    /\ UNCHANGED <<nodes, store, env, iconFontFamily, calls, lastSelectedNodeId, processing,
                   featureEnabled, proc, subst, hlog, clean, events, produced, orig>>

\* the early return on the guard alone: the feature flag is not tested
HandlerReturnsEarlyWhenBusy == processing

\* if (!featureEnabled) return; if (processing) return;
HandlerReturnsEarly == ~featureEnabled \/ processing

\* the debounce timer expires: handleSelectionChange runs up to its first await
HandleSelectionChange ==
    /\ timer
    /\ timer' = FALSE
    /\ events' = [events EXCEPT !.newId = NewId(selection),
                                !.prev = events.newId,
                                !.outcome = IF ~featureEnabled THEN "off"
                                            ELSE IF processing THEN "busy" ELSE "ran",
                                !.busy = events.busy \/ (featureEnabled /\ processing)]
    /\ IF HandlerReturnsEarly
       THEN /\ clean' = FALSE
            /\ UNCHANGED <<nodes, lastSelectedNodeId, processing, proc, hlog, subst>>
       ELSE LET newId == NewId(selection)
                pr    == [IdleProc EXCEPT !.newId = newId]
            IN  /\ hlog' = Append(hlog, newId)
                /\ clean' = clean
                /\ IF lastSelectedNodeId # Null /\ lastSelectedNodeId # newId
                   THEN /\ processing' = TRUE
                        /\ proc' = [proc EXCEPT !["sel"] =
                                      [pr EXCEPT !.pc = "getNode", !.phase = "finish",
                                                 !.node = lastSelectedNodeId]]
                        /\ UNCHANGED <<nodes, lastSelectedNodeId, subst>>
                   ELSE Commit("sel", HandlerEditStart(pr, nodes, lastSelectedNodeId, {}),
                               subst)
    /\ UNCHANGED <<store, env, iconFontFamily, calls, selection, featureEnabled, budget, produced, orig>>

\* figma.getNodeByIdAsync answers: replacePlaceholdersInNode(prevNode) starts
HandlerGetNode ==
    /\ proc["sel"].pc = "getNode"
    /\ LET b == BeginReplace(proc["sel"], nodes, proc["sel"].node)
       IN  IF b.done
           THEN Commit("sel", HandlerAfterPass(b.pr, b.nds, lastSelectedNodeId, b.rs), subst)
           ELSE /\ proc' = [proc EXCEPT !["sel"] = b.pr]
                /\ UNCHANGED <<nodes, processing, lastSelectedNodeId, subst>>
    /\ UNCHANGED <<store, env, iconFontFamily, calls, selection, timer, featureEnabled, budget,
                   hlog, clean, events, produced, orig>>

\* one iteration of the loop over the matches (findStringVariable and
\* resolveVariableValue answer), and after the last one the test of ops.length
PassResolve(p) ==
    /\ proc[p].pc = "rp_resolve"
    /\ LET pr   == proc[p]
           e    == pr.node
           acc  == ResolveStep(pr.acc, nodes[e], store, pr.matches[pr.i])
           last == pr.i = Len(pr.matches)
       IN  /\ events' = [events EXCEPT !.threw = @ \/ (p = "sel" /\ acc.err)]
           /\ IF acc.err
              THEN Commit(p, AfterPass(p, pr, nodes, TRUE, {}), subst)
              ELSE IF ~last
              THEN /\ proc' = [proc EXCEPT ![p] = [pr EXCEPT !.acc = acc, !.i = pr.i + 1]]
                   /\ UNCHANGED <<nodes, processing, lastSelectedNodeId, subst>>
              ELSE IF Len(acc.ops) = 0
              THEN Commit(p, AfterPass(p, WithResult(p, pr, e, FALSE),
                                       [nodes EXCEPT ![e] = ClearNodeBackup(nodes[e])],
                                       FALSE, {e}), subst)
              ELSE /\ proc' = [proc EXCEPT ![p] = [pr EXCEPT !.acc = acc, !.pc = "rp_load"]]
                   /\ UNCHANGED <<nodes, processing, lastSelectedNodeId, subst>>
    /\ UNCHANGED <<store, env, iconFontFamily, calls, selection, timer, featureEnabled, budget,
                   hlog, clean, produced, orig>>

\* the fonts are loaded: the Backup is saved and the replacements are applied
PassApply(p) ==
    /\ proc[p].pc = "rp_load"
    /\ LET pr == proc[p]
           e  == pr.node
       IN  \E loadOk \in (IF pr.acc.hasIconReplacement /\ iconFontFamily # ""
                          THEN BOOLEAN ELSE {FALSE}) :
              LET run == SaveAndApply(nodes[e], pr.text, pr.acc,
                                      IconFontLoaded(pr.acc, iconFontFamily, loadOk))
              IN  /\ Commit(p, AfterPass(p, WithResult(p, pr, e, TRUE),
                                           [nodes EXCEPT ![e] = run.n], run.err, {}),
                            [subst EXCEPT ![e] = "substituted"])
                  /\ produced' = [produced EXCEPT ![e] = run.n.chars]
                  /\ events' = [events EXCEPT !.threw = @ \/ (p = "sel" /\ run.err)]
    /\ UNCHANGED <<store, env, iconFontFamily, calls, selection, timer, featureEnabled, budget,
                   hlog, clean, orig>>

\* restorePlaceholdersInNode after safeLoadFontsForNode: the records are sorted,
\* or a Backup without records is restored as a whole text
PassRestoreLoad(p) ==
    /\ proc[p].pc = "rs_load"
    /\ LET pr == proc[p]
           e  == pr.node
       IN  IF pr.backup.kind = "records"
           THEN /\ proc' = [proc EXCEPT ![p] =
                              [pr EXCEPT !.pc = "rs_fonts",
                                         !.reps = SortDesc(pr.backup.replacements)]]
                /\ UNCHANGED <<nodes, processing, lastSelectedNodeId, subst>>
           ELSE IF pr.backup.original # <<>>
           THEN Commit(p, AfterPass(p, WithResult(p, pr, e, TRUE),
                              [nodes EXCEPT ![e] =
                                  ClearNodeBackup(SetCharacters(nodes[e], pr.backup.original))],
                              FALSE, {}),
                       [subst EXCEPT ![e] = "none"])
           ELSE Commit(p, AfterPass(p, WithResult(p, pr, e, FALSE), nodes, FALSE, {}), subst)
    /\ UNCHANGED <<store, env, iconFontFamily, calls, selection, timer, featureEnabled, budget,
                   hlog, clean, events, produced, orig>>

\* the fonts of the records are loaded: the records are applied, the Backup cleared
PassRestoreApply(p) ==
    /\ proc[p].pc = "rs_fonts"
    /\ LET pr  == proc[p]
           e   == pr.node
           run == ApplyRestore(nodes[e], pr.reps)
       IN  /\ Commit(p, AfterPass(p, WithResult(p, pr, e, TRUE),
                                   [nodes EXCEPT ![e] = run.n], run.err, {}),
                     [subst EXCEPT ![e] = IF run.err THEN subst[e] ELSE "none"])
           /\ events' = [events EXCEPT !.threw = @ \/ (p = "sel" /\ run.err)]
    /\ UNCHANGED <<store, env, iconFontFamily, calls, selection, timer, featureEnabled, budget,
                   hlog, clean, produced, orig>>

\* figma.ui.onmessage for run-on-selection and restore-on-selection, up to the
\* first await
UiMessage ==
    /\ budget > 0
    /\ proc["ui"].pc = "idle"
    /\ \E kind \in {"run", "restore"} :
          LET u == UiLoop([IdleProc EXCEPT !.kind = kind,
                                           !.queue = GatherTextNodes(selection)], nodes, {})
          IN  /\ proc' = [proc EXCEPT !["ui"] =
                            [u.pr EXCEPT !.kind = kind, !.sel = selection,
                                         !.touched = Touched(nodes, u.nds)]]
              /\ nodes' = u.nds
              /\ subst' = MarkRescanned(subst, u.rs)
    /\ budget' = budget - 1
    /\ clean' = FALSE
    /\ events' = [events EXCEPT !.forced = TRUE]
    /\ UNCHANGED <<store, env, iconFontFamily, calls, selection, timer, lastSelectedNodeId,
                   processing, featureEnabled, hlog, produced, orig>>

\* the icon font families a set message names in the runtime specification
\* (its texts hold no icon/ key)
RuntimeIconFamilies == {""}

\* figma.ui.onmessage for set: the feature flag and the icon font
UiSet ==
    /\ budget > 0
    /\ \E en \in BOOLEAN, fam \in RuntimeIconFamilies :
          /\ <<en, fam>> # <<featureEnabled, iconFontFamily>>
          /\ featureEnabled' = en
          /\ iconFontFamily' = fam
          /\ events' = [events EXCEPT !.off = events.off \/ ~en]
    /\ budget' = budget - 1
    /\ UNCHANGED <<nodes, store, env, calls, selection, timer, lastSelectedNodeId, processing,
                   proc, subst, hlog, clean, produced, orig>>

\* the texts the user types
EditTexts == { <<"X">> }

\* the user edits the text of the element they selected; the host keeps the
\* plugin data of the element. The edit comes once the debounce timer has
\* expired and while no pass is suspended on the element.
UserEdit ==
    /\ budget > 0
    /\ ~timer
    /\ \E e \in Elements, t \in EditTexts :
          /\ selection = {e}
          /\ Settled(e)
          /\ t # nodes[e].chars
          /\ nodes' = [nodes EXCEPT ![e] = SetCharacters(nodes[e], t)]
    /\ budget' = budget - 1
    /\ UNCHANGED <<store, env, iconFontFamily, calls, selection, timer, lastSelectedNodeId,
                   processing, featureEnabled, proc, subst, hlog, clean, events, produced, orig>>

\* the texts of the runtime specification
RuntimeTexts ==
    { <<"@", "a">>, <<"@", "a", "@", "b">> }

RuntimeStores ==
    { (<<"a">> :> <<"X", "X", "X", "X">>),
      (<<"a">> :> <<>>) @@ (<<"b">> :> <<"Y">>) }

Init ==
    /\ \E ta \in RuntimeTexts, tb \in {<<"@", "b">>, <<"X">>} :
          nodes = [e \in Elements |->
                     [chars  |-> IF e = "A" THEN ta ELSE tb,
                      fonts  |-> Repeat("F1", Len(IF e = "A" THEN ta ELSE tb)),
                      backup |-> NoBackup]]
    /\ store \in RuntimeStores
    /\ env = NoFaults
    /\ iconFontFamily = ""
    /\ calls = <<>>
    /\ RuntimeAtRest
    /\ budget = MaxEvents
    /\ orig = nodes

Next ==
    \/ SelectionChange
    \/ HandleSelectionChange
    \/ HandlerGetNode
    \/ \E p \in Procs : PassResolve(p)
    \/ \E p \in Procs : PassApply(p)
    \/ \E p \in Procs : PassRestoreLoad(p)
    \/ \E p \in Procs : PassRestoreApply(p)
    \/ UiMessage
    \/ UiSet
    \/ UserEdit

Spec == Init /\ [][Next]_vars

(***************************************************************************)
(* Whole-text engine (src/code.js): the left-to-right construction         *)
(***************************************************************************)
\* the loop "for (const mm of matches)" building out, and the tail after it
RECURSIVE BuildOut(_, _, _, _, _)
BuildOut(text, st, matches, i, lastIndex) ==
    IF i > Len(matches) THEN Slice(text, lastIndex, Len(text))
    ELSE LET mm == matches[i]
         IN  Slice(text, lastIndex, mm.start)
             \o (IF FindStringVariable(st, mm.key)
                 THEN ResolveVariableValue(st, mm.key)
                 ELSE Slice(text, mm.start, mm.start + mm.len))
             \o BuildOut(text, st, matches, i + 1, mm.start + mm.len)

\* PLACEHOLDER_REGEX of src/code.js: "@" and a greedy run of one or more key
\* characters, the dot being one of them
RECURSIVE WholeScanFrom(_, _)
WholeScanFrom(text, p) ==
    IF p > Len(text) THEN <<>>
    ELSE IF text[p] = "@" /\ RunEndDot(text, p + 1) >= p + 1
    THEN LET e == RunEndDot(text, p + 1)
         IN  <<[key   |-> SubSeq(text, p + 1, e),
                start |-> p - 1,
                len   |-> e - p + 1,
                text  |-> SubSeq(text, p, e)]>> \o WholeScanFrom(text, e + 1)
    ELSE WholeScanFrom(text, p + 1)

WholeScan(text) == WholeScanFrom(text, 1)

\* snapshot[mm.key] = replacement for every match whose variable is found
WholeSnapshot(st, matches) ==
    [k \in {matches[i].key : i \in {j \in 1..Len(matches) :
                                        FindStringVariable(st, matches[j].key)}}
        |-> ResolveVariableValue(st, k)]

\* saveNodeBackup of src/code.js; a failing write is caught
SaveWholeBackup(n, originalText, snapshot) ==
    IF WriteThrows THEN n ELSE [n EXCEPT !.backup = LegacyBackup(originalText, snapshot)]

\* replacePlaceholdersInNode of src/code.js: nothing is done when the scan finds
\* no match; otherwise the Backup is saved and the text is replaced by out,
\* whether or not any match resolved
WholeReplace(n, st) ==
    LET text    == n.chars
        matches == WholeScan(text)
        out     == BuildOut(text, st, matches, 1, 0)
    IN  IF Len(matches) = 0 THEN [n |-> n, ret |-> FALSE]
        ELSE [n   |-> SetCharacters(SaveWholeBackup(n, text, WholeSnapshot(st, matches)), out),
              ret |-> TRUE]

\* restorePlaceholdersInNode of src/code.js: the original text of the Backup is
\* written and the Backup is kept
WholeRestore(n) ==
    LET backup == ReadNodeBackup(n)
    IN  IF backup.kind = "none" \/ backup.original = <<>> THEN [n |-> n, ret |-> FALSE]
        ELSE [n |-> SetCharacters(n, backup.original), ret |-> TRUE]

(***************************************************************************)
(* The selection cycle of src/code.js, each handler run to its end         *)
(***************************************************************************)
WholeTexts == { <<"@", "a">>, <<"@", "b">>, <<"X">> }

WholeEditTexts == { <<"X">>, <<"X", "@", "a">>, <<"h", "i">> }

InitWhole ==
    /\ \E ta \in WholeTexts, tb \in WholeTexts :
          nodes = [e \in Elements |->
                     [chars  |-> IF e = "A" THEN ta ELSE tb,
                      fonts  |-> Repeat("F1", Len(IF e = "A" THEN ta ELSE tb)),
                      backup |-> NoBackup]]
    /\ store = (<<"a">> :> <<"X", "Y", "Z">>)
    /\ env = NoFaults
    /\ iconFontFamily = ""
    /\ calls = <<>>
    /\ RuntimeAtRest
    /\ budget = MaxCycle
    /\ orig = nodes

\* a selection change and the handleSelectionChange of src/code.js that the
\* debounce runs for it: the edit-finish substitution on the element that was
\* focused, then the edit-start restoration on the newly selected element.
\* calls: the passes of this invocation, each with the text the element held
\* (pre) and the text left by the substitution that saved its Backup (saved)
WholeSelectionChange ==
    /\ budget > 0
    /\ featureEnabled
    /\ ~processing
    /\ \E S \in ({{}} \cup {{e} : e \in Elements}) \ {selection} :
          LET newId  == NewId(S)
              last   == lastSelectedNodeId
              finish == last # Null /\ last # newId
              r1     == WholeReplace(nodes[last], store)
              nds1   == IF finish THEN [nodes EXCEPT ![last] = r1.n] ELSE nodes
              prod1  == IF finish /\ r1.ret
                        THEN [produced EXCEPT ![last] = r1.n.chars] ELSE produced
              start  == newId # Null /\ newId # last
              r2     == WholeRestore(nds1[newId])
          IN  /\ selection' = S
              /\ nodes' = IF start THEN [nds1 EXCEPT ![newId] = r2.n] ELSE nds1
              /\ produced' = prod1
              /\ lastSelectedNodeId' = newId
              /\ calls' = (IF finish
                           THEN <<[op |-> "replace", node |-> last, pre |-> nodes[last],
                                   ret |-> r1.ret, saved |-> produced[last]]>>
                           ELSE <<>>)
                          \o (IF start
                              THEN <<[op |-> "restore", node |-> newId, pre |-> nds1[newId],
                                      ret |-> r2.ret, saved |-> prod1[newId]]>>
                              ELSE <<>>)
    /\ budget' = budget - 1
    /\ UNCHANGED <<store, env, iconFontFamily, timer, processing, featureEnabled, proc,
                   subst, hlog, clean, events, orig>>

\* the user types in the focused element
WholeUserEdit ==
    /\ budget > 0
    /\ \E e \in Elements, t \in WholeEditTexts :
          /\ selection = {e}
          /\ lastSelectedNodeId = e
          /\ t # nodes[e].chars
          /\ nodes' = [nodes EXCEPT ![e] = SetCharacters(nodes[e], t)]
    /\ budget' = budget - 1
    /\ UNCHANGED <<store, env, iconFontFamily, calls, selection, timer, lastSelectedNodeId,
                   processing, featureEnabled, proc, subst, hlog, clean, events, produced,
                   orig>>

NextWhole == WholeSelectionChange \/ WholeUserEdit

SpecWhole == InitWhole /\ [][NextWhole]_vars

(***************************************************************************)
(* Inputs of the engine specification                                      *)
(***************************************************************************)
GenAlphabet == {"@", "a", "b", " "}

GenTexts == UNION {[1..k -> GenAlphabet] : k \in 0..MaxLen}

LongTexts ==
    { <<"@", "a", "@", "b">>,
      <<"@", "a", " ", "@", "b", "b">>,
      <<"@", "a", ".", "b">>,
      <<"@", "a", ".", " ">>,
      <<"@", "i", "c", "o", "n", "/">>,
      <<"@", "a", "@", "i", "c", "o", "n", "/">>,
      <<"@", "i", "c", "o", "n", "/", "@", "a">>,
      <<"@", "i", "c", "o", "n", " ", "@", "b">> }

Values == { <<>>, <<"Y">>, <<"X", "Y">>, <<"X", "X", "X", "X">> }

KeysOf(text) == {Scan(text)[i].key : i \in 1..Len(Scan(text))}

\* every collection that holds a variable for some of the keys of text
Stores(text) == UNION {[K -> Values] : K \in SUBSET KeysOf(text)}

\* every font per character for a short text, at most two runs for a long one
FontsOf(text) ==
    IF Len(text) <= MaxLen THEN [1..Len(text) -> Fonts]
    ELSE {[i \in 1..Len(text) |-> IF i <= k THEN f ELSE g] :
              k \in 0..(Len(text) - 1), f \in Fonts, g \in Fonts}

HasIconKey(text) == \E k \in KeysOf(text) : IsIconKey(k)

\* elements written by an older version of the plugin: a Backup with no records
LegacyNodes ==
    {[chars |-> <<"X">>, fonts |-> <<f>>, backup |-> LegacyBackup(o, NoSnapshot)] :
        f \in Fonts, o \in {<<>>, <<"@", "a">>, <<"@", "a", " ", "@", "b">>}}

InitEngine ==
    /\ \/ \E t \in GenTexts \cup LongTexts :
            /\ \E f \in FontsOf(t) :
                  nodes = [e \in Elements |->
                             IF e = "A" THEN [chars |-> t, fonts |-> f, backup |-> NoBackup]
                             ELSE [chars |-> <<>>, fonts |-> <<>>, backup |-> NoBackup]]
            /\ store \in Stores(t)
            /\ iconFontFamily \in (IF HasIconKey(t) THEN {"", IconFont} ELSE {""})
       \/ /\ \E n \in LegacyNodes :
                  nodes = [e \in Elements |->
                             IF e = "A" THEN n
                             ELSE [chars |-> <<>>, fonts |-> <<>>, backup |-> NoBackup]]
          /\ store \in Stores(<<"@", "a">>)
          /\ iconFontFamily = ""
    /\ env = NoFaults
    /\ calls = <<>>
    /\ RuntimeAtRest
    /\ budget = 0
    /\ orig = nodes

\* replacePlaceholdersInNode(A) run to completion
EngineReplace ==
    /\ Len(calls) < MaxCalls
    /\ \E loadOk \in (IF HasIconKey(nodes["A"].chars) /\ iconFontFamily # ""
                       THEN BOOLEAN ELSE {FALSE}) :
          LET r == ReplacePlaceholdersInNode(nodes["A"], store, iconFontFamily, loadOk)
          IN  /\ nodes' = [nodes EXCEPT !["A"] = r.n]
              /\ calls' = Append(calls, [op |-> "replace", node |-> "A", pre |-> nodes["A"],
                                         ret |-> r.ret, err |-> r.err,
                                         loadOk |-> loadOk, host |-> env])
    /\ UNCHANGED <<store, env, iconFontFamily, runtimeVars>>

\* restorePlaceholdersInNode(A) run to completion
EngineRestore ==
    /\ Len(calls) < MaxCalls
    /\ LET r == RestorePlaceholdersInNode(nodes["A"])
       IN  /\ nodes' = [nodes EXCEPT !["A"] = r.n]
           /\ calls' = Append(calls, [op |-> "restore", node |-> "A", pre |-> nodes["A"],
                                      ret |-> r.ret, err |-> r.err,
                                      loadOk |-> FALSE, host |-> env])
    /\ UNCHANGED <<store, env, iconFontFamily, runtimeVars>>

NextEngine == EngineReplace \/ EngineRestore

SpecEngine == InitEngine /\ [][NextEngine]_vars

(***************************************************************************)
(* The scanner on its own                                                  *)
(***************************************************************************)
ScanAlphabet == {"@", "a", ".", "/", " "}

ScanTexts == UNION {[1..k -> ScanAlphabet] : k \in 0..MaxScanLen}

InitScan ==
    /\ \E t \in ScanTexts :
          nodes = [e \in Elements |->
                     IF e = "A"
                     THEN [chars |-> t, fonts |-> Repeat("F1", Len(t)), backup |-> NoBackup]
                     ELSE [chars |-> <<>>, fonts |-> <<>>, backup |-> NoBackup]]
    /\ store = <<>>
    /\ env = NoFaults
    /\ iconFontFamily = ""
    /\ calls = <<>>
    /\ RuntimeAtRest
    /\ budget = 0
    /\ orig = nodes

\* the exec() loop of replacePlaceholdersInNode on the text of A
ScanText ==
    /\ calls = <<>>
    /\ calls' = <<[op |-> "scan", node |-> "A", pre |-> nodes["A"],
                   ret |-> Len(Scan(nodes["A"].chars)) > 0, err |-> FALSE, loadOk |-> FALSE,
                   matches |-> Scan(nodes["A"].chars)]>>
    /\ UNCHANGED <<nodes, store, env, iconFontFamily, runtimeVars>>

SpecScan == InitScan /\ [][ScanText]_vars

(***************************************************************************)
(* The engine on a host whose calls can fail, and passes cut short         *)
(***************************************************************************)
FaultTexts ==
    { <<"@", "a">>,
      <<"@", "a", " ", "@", "b">>,
      <<"@", "i", "c", "o", "n", "/">>,
      <<"@", "i", "c", "o", "n", "/", " ", "@", "a">>,
      <<"@", "a", " ", "@", "i", "c", "o", "n", "/">> }

FaultValues == { <<>>, <<"X", "Y">> }

FaultStores(text) == UNION {[K -> FaultValues] : K \in SUBSET KeysOf(text)}

\* the lookup rejects, or some variables throw on resolution and the host
\* rejects the range writes of some fonts
FaultEnvs(text) ==
    {[NoFaults EXCEPT !.lookupRejects = TRUE]}
    \cup {[NoFaults EXCEPT !.throwing = T, !.rejected = R] :
              T \in SUBSET KeysOf(text),
              R \in {{}, {IconFont}, {"F1"}}}

InitFaults ==
    /\ \E t \in FaultTexts :
          /\ nodes = [e \in Elements |->
                       IF e = "A"
                       THEN [chars |-> t, fonts |-> Repeat("F1", Len(t)), backup |-> NoBackup]
                       ELSE [chars |-> <<>>, fonts |-> <<>>, backup |-> NoBackup]]
          /\ store \in FaultStores(t)
          /\ env \in FaultEnvs(t)
          /\ iconFontFamily \in (IF HasIconKey(t) THEN {"", IconFont} ELSE {""})
    /\ calls = <<>>
    /\ RuntimeAtRest
    /\ budget = 0
    /\ orig = nodes

\* replacePlaceholdersInNode(A) cut short after its Backup write and k host calls
\* of its loop over ops
EngineAbortedReplace ==
    /\ Len(calls) < MaxCalls
    /\ \A i \in 1..Len(calls) : calls[i].op # "aborted"
    /\ \E loadOk \in (IF HasIconKey(nodes["A"].chars) /\ iconFontFamily # ""
                       THEN BOOLEAN ELSE {FALSE}) :
          LET n       == nodes["A"]
              acc     == ResolveLoop(EmptyAcc, n, store, Scan(n.chars), 1)
              loaded  == IconFontLoaded(acc, iconFontFamily, loadOk)
              steps   == AllSteps(acc.ops, Len(acc.ops), loaded)
          IN  /\ ~acc.err
              /\ Len(acc.ops) > 0
              /\ \E k \in 0..(Len(steps) - 1) :
                    LET run == SaveAndApplyPrefix(n, n.chars, acc, loaded, k)
                    IN  /\ nodes' = [nodes EXCEPT !["A"] = run.n]
                        /\ calls' = Append(calls, [op |-> "aborted", node |-> "A", pre |-> n,
                                                   ret |-> FALSE, err |-> TRUE,
                                                   loadOk |-> loadOk, host |-> env])
    /\ UNCHANGED <<store, env, iconFontFamily, runtimeVars>>

NextFaults == EngineReplace \/ EngineRestore \/ EngineAbortedReplace

SpecFaults == InitFaults /\ [][NextFaults]_vars

(***************************************************************************)
(* The engine on a host whose plugin data calls fail                       *)
(***************************************************************************)
PersistTexts == { <<"@", "a">>, <<"@", "a", " ", "@", "b">> }

PersistStores ==
    { (<<"a">> :> <<"X", "Y", "Z">>),
      (<<"a">> :> <<"X", "Y", "Z">>) @@ (<<"b">> :> <<"Z">>) }

\* getPluginData and setPluginData each work or throw
PersistEnvs ==
    {[NoFaults EXCEPT !.readThrows = r, !.writeThrows = w] : r \in BOOLEAN, w \in BOOLEAN}

\* elements without a Backup, with a Backup of the older format, and with a blob
\* that is not JSON
PersistNodes ==
    {[chars |-> t, fonts |-> Repeat("F1", Len(t)), backup |-> NoBackup] : t \in PersistTexts}
    \cup {[chars |-> <<"X">>, fonts |-> <<"F1">>, backup |-> LegacyBackup(<<"@", "a">>, NoSnapshot)],
          [chars |-> <<"X">>, fonts |-> <<"F1">>, backup |-> CorruptBackup],
          [chars |-> <<"@", "a">>, fonts |-> <<"F1", "F1">>, backup |-> CorruptBackup]}

InitPersist ==
    /\ \E n \in PersistNodes :
          nodes = [e \in Elements |->
                     IF e = "A" THEN n
                     ELSE [chars |-> <<>>, fonts |-> <<>>, backup |-> NoBackup]]
    /\ store \in PersistStores
    /\ env \in PersistEnvs
    /\ iconFontFamily = ""
    /\ calls = <<>>
    /\ RuntimeAtRest
    /\ budget = 0
    /\ orig = nodes

\* between two passes the plugin data calls of the host start or stop failing
PluginDataFails ==
    /\ Len(calls) < MaxCalls
    /\ \E f \in PersistEnvs \ {env} : env' = f
    /\ UNCHANGED <<nodes, store, iconFontFamily, calls, runtimeVars>>

NextPersist == EngineReplace \/ EngineRestore \/ PluginDataFails

SpecPersist == InitPersist /\ [][NextPersist]_vars

(***************************************************************************)
(* Observations on the call log                                            *)
(***************************************************************************)
NCalls == Len(calls)
CurA == nodes["A"]

\* the last call is op
LastIs(op) == NCalls >= 1 /\ calls[NCalls].op = op

\* the last two calls are op1 then op2
LastTwo(op1, op2) ==
    NCalls >= 2 /\ calls[NCalls - 1].op = op1 /\ calls[NCalls].op = op2

Resolved(mm) == FindStringVariable(store, mm.key)

AllResolve(text) == \A i \in 1..Len(Scan(text)) : Resolved(Scan(text)[i])
NoneResolves(text) == \A i \in 1..Len(Scan(text)) : ~Resolved(Scan(text)[i])

\* net length change of the resolved matches before match j
RECURSIVE DeltaBefore(_, _)
DeltaBefore(matches, j) ==
    IF j <= 1 THEN 0
    ELSE DeltaBefore(matches, j - 1)
         + (IF Resolved(matches[j - 1])
            THEN Len(ResolveVariableValue(store, matches[j - 1].key)) - matches[j - 1].len
            ELSE 0)

\* C1: substitution then restoration of a text whose placeholders all resolve
\* leaves the text it started from.
C1_TextRoundTrip ==
    (LastTwo("replace", "restore") /\ AllResolve(calls[NCalls - 1].pre.chars))
        => CurA.chars = calls[NCalls - 1].pre.chars

\* C2: after substitution then restoration every character of every resolved
\* placeholder has the font it had before the substitution.
C2_FontRoundTrip ==
    LastTwo("replace", "restore") =>
        LET pre == calls[NCalls - 1].pre
            ms  == Scan(pre.chars)
        IN  \A j \in 1..Len(ms) : Resolved(ms[j]) =>
                \A i \in (ms[j].start + 1)..(ms[j].start + ms[j].len) :
                    i <= Len(CurA.fonts) /\ CurA.fonts[i] = pre.fonts[i]

\* C3: a restoration that directly follows a restoration reports not-restored
\* and changes neither the text nor the Backup.
C3_RestoreOneShot ==
    LastTwo("restore", "restore") =>
        /\ calls[NCalls].ret = FALSE
        /\ CurA.chars = calls[NCalls].pre.chars
        /\ CurA.backup = calls[NCalls].pre.backup

C3_Witness ==
    /\ LastTwo("restore", "restore")
    /\ calls[NCalls - 1].ret
    /\ calls[NCalls - 1].pre.backup.kind = "records"
    /\ calls[NCalls - 1].pre.chars # calls[NCalls].pre.chars

\* C4: a substitution of a text with no match, or with no match that resolves,
\* reports no change, leaves the text as it was and leaves no Backup.
C4_NoActionableNoOp ==
    (LastIs("replace") /\ NoneResolves(calls[NCalls].pre.chars)) =>
        /\ calls[NCalls].ret = FALSE
        /\ CurA.chars = calls[NCalls].pre.chars
        /\ ~HasBackup(CurA)

C4_Witness ==
    /\ LastIs("replace")
    /\ Len(Scan(calls[NCalls].pre.chars)) > 0
    /\ NoneResolves(calls[NCalls].pre.chars)
    /\ HasBackup(calls[NCalls].pre)
    /\ ~HasBackup(CurA)

\* the originalText of the records, in order
RecordTexts(reps) == [i \in 1..Len(reps) |-> reps[i].originalText]

\* the raw texts of the resolved matches, in order
RECURSIVE ResolvedTexts(_, _)
ResolvedTexts(matches, i) ==
    IF i > Len(matches) THEN <<>>
    ELSE (IF Resolved(matches[i]) THEN <<matches[i].text>> ELSE <<>>)
         \o ResolvedTexts(matches, i + 1)

SomeResolvedSomeAbsent(text) == ~AllResolve(text) /\ ~NoneResolves(text)

\* C5: in a substitution where some matches resolve and some do not, the raw text of
\* every unresolved match is still in the text (at its offset shifted by the
\* replacements before it), and the snapshot and the records of the Backup hold
\* the resolved matches and only them.
C5_UnresolvedPreserved ==
    (LastIs("replace") /\ SomeResolvedSomeAbsent(calls[NCalls].pre.chars)) =>
        LET ms == Scan(calls[NCalls].pre.chars)
        IN  /\ \A j \in 1..Len(ms) : ~Resolved(ms[j]) =>
                   LET s == ms[j].start + DeltaBefore(ms, j)
                   IN  Slice(CurA.chars, s, s + ms[j].len) = ms[j].text
            /\ DOMAIN CurA.backup.snapshot = {ms[j].key : j \in {i \in 1..Len(ms) : Resolved(ms[i])}}
            /\ \A k \in DOMAIN CurA.backup.snapshot : CurA.backup.snapshot[k] = store[k]
            /\ RecordTexts(CurA.backup.replacements) = ResolvedTexts(ms, 1)

C5_Witness ==
    /\ LastIs("replace")
    /\ SomeResolvedSomeAbsent(calls[NCalls].pre.chars)
    /\ ~Resolved(Scan(calls[NCalls].pre.chars)[2])
    /\ Len(CurA.chars) > Len(calls[NCalls].pre.chars)

\* C6: the text left by the right-to-left rewriting is the string built left to
\* right from the text before the pass, each resolved match replaced by its
\* value and everything else copied.
C6_OffsetStability ==
    LastIs("replace") =>
        CurA.chars = BuildOut(calls[NCalls].pre.chars, store,
                              Scan(calls[NCalls].pre.chars), 1, 0)

C6_Witness ==
    /\ LastIs("replace")
    /\ calls[NCalls].pre.chars = <<"@", "a", " ", "@", "b", "b">>
    /\ CurA.chars = <<"X", "X", "X", "X", " ", "Y">>

\* the calls[k] substitution loaded the configured icon font
IconLoadedAt(k) == iconFontFamily # "" /\ calls[k].loadOk

\* C9 (substitution): every character of the value inserted for a resolved icon/
\* match has the icon font when that font is configured and loads.
C9_IconSpanAfterReplace ==
    (LastIs("replace") /\ IconLoadedAt(NCalls)) =>
        LET ms == Scan(calls[NCalls].pre.chars)
        IN  \A j \in 1..Len(ms) : (Resolved(ms[j]) /\ IsIconKey(ms[j].key)) =>
                LET s == ms[j].start + DeltaBefore(ms, j)
                IN  \A i \in (s + 1)..(s + Len(store[ms[j].key])) :
                        i <= Len(CurA.fonts) /\ CurA.fonts[i] = IconFont

\* C9 (restoration): after the restoration that follows, every character of the
\* icon/ placeholder has the font its first character had before the substitution.
C9_IconSpanAfterRestore ==
    (LastTwo("replace", "restore") /\ IconLoadedAt(NCalls - 1)) =>
        LET pre == calls[NCalls - 1].pre
            ms  == Scan(pre.chars)
        IN  \A j \in 1..Len(ms) : (Resolved(ms[j]) /\ IsIconKey(ms[j].key)) =>
                \A i \in (ms[j].start + 1)..(ms[j].start + ms[j].len) :
                    i <= Len(CurA.fonts) /\ CurA.fonts[i] = pre.fonts[ms[j].start + 1]

\* C9: icon routing, on substitution and on restoration.
C9_IconRouting == C9_IconSpanAfterReplace /\ C9_IconSpanAfterRestore

\* C15: after a substitution pass that reports changed, the text at
\* [start, start+len) of every record of the Backup is the value its placeholder
\* resolved to, and the records are in non-decreasing start order with spans that
\* do not overlap.
C15_RecordCoordinates ==
    (LastIs("replace") /\ calls[NCalls].ret) =>
        LET reps == CurA.backup.replacements
        IN  /\ Len(reps) >= 1
            /\ \A r \in 1..Len(reps) :
                   /\ reps[r].start >= 0
                   /\ reps[r].start + reps[r].len <= Len(CurA.chars)
                   /\ Slice(CurA.chars, reps[r].start, reps[r].start + reps[r].len)
                          = ResolveVariableValue(store, Tail(reps[r].originalText))
            /\ \A r \in 1..(Len(reps) - 1) :
                   reps[r].start + reps[r].len <= reps[r + 1].start

C15_Witness ==
    /\ LastIs("replace") /\ calls[NCalls].ret
    /\ Len(CurA.backup.replacements) = 2
    /\ CurA.backup.replacements[1].len = 4
    /\ CurA.backup.replacements[2].start = 5
    /\ CurA.backup.replacements[2].start # Scan(calls[NCalls].pre.chars)[2].start

(***************************************************************************)
(* Observations on the scanner                                             *)
(***************************************************************************)
\* key is one or more non-empty runs of key characters joined by single dots
WellFormedKey(key) ==
    /\ Len(key) >= 1
    /\ \A i \in 1..Len(key) : IsKeyChar(key[i]) \/ key[i] = "."
    /\ key[1] # "." /\ key[Len(key)] # "."
    /\ \A i \in 1..(Len(key) - 1) : ~(key[i] = "." /\ key[i + 1] = ".")

\* the match m of text cannot be extended: what follows it is neither a key
\* character nor a dot followed by a key character
Maximal(text, m) ==
    LET q == m.start + m.len + 1
    IN  q <= Len(text) =>
           /\ ~IsKeyChar(text[q])
           /\ text[q] = "." => (q + 1 > Len(text) \/ ~IsKeyChar(text[q + 1]))

\* C14: the matches of the scanner are in strictly increasing start order and do
\* not overlap; the raw text of each is "@" followed by its key and is the
\* substring of the input at [start, start+len); each key is made of non-empty
\* segments of key characters joined by single dots; each match is maximal.
C14_ScannerShape ==
    LastIs("scan") =>
        LET text == calls[NCalls].pre.chars
            ms   == calls[NCalls].matches
        IN  /\ \A j \in 1..(Len(ms) - 1) : ms[j].start + ms[j].len <= ms[j + 1].start
            /\ \A j \in 1..Len(ms) :
                   /\ ms[j].start >= 0 /\ ms[j].len = Len(ms[j].text)
                   /\ ms[j].text = <<"@">> \o ms[j].key
                   /\ ms[j].text = Slice(text, ms[j].start, ms[j].start + ms[j].len)
                   /\ WellFormedKey(ms[j].key)
                   /\ Maximal(text, ms[j])

C14_Witness ==
    /\ LastIs("scan")
    /\ calls[NCalls].pre.chars = <<"@", "a", ".", "/", ".">>
    /\ Len(calls[NCalls].matches) = 1
    /\ calls[NCalls].matches[1].key = <<"a", ".", "/">>

(***************************************************************************)
(* Observations on a host whose calls can fail                             *)
(***************************************************************************)
\* looking up or resolving the variable of match mm fails
ResolverFails(mm) ==
    LookupRejects \/ (mm.key \in DOMAIN store /\ mm.key \in env.throwing)

\* the collection without the variables whose lookup or resolution fails
Answering ==
    [k \in (IF LookupRejects THEN {} ELSE DOMAIN store \ env.throwing) |-> store[k]]

\* C11: when the lookup or the resolution of a match's variable fails, the
\* substitution pass does not throw, the match is treated as absent (the text is
\* the one built with the failing variables missing) and its key is not in the
\* snapshot of the Backup.
C11_ResolverFailureAbsent ==
    (LastIs("replace") /\ env.rejected = {}) =>
        LET pre == calls[NCalls].pre
            ms  == Scan(pre.chars)
        IN  /\ ~calls[NCalls].err
            /\ CurA.chars = BuildOut(pre.chars, Answering, ms, 1, 0)
            /\ \A j \in 1..Len(ms) : ResolverFails(ms[j]) =>
                   /\ ms[j].key \notin DOMAIN CurA.backup.snapshot
                   /\ \A r \in 1..Len(CurA.backup.replacements) :
                          CurA.backup.replacements[r].originalText # ms[j].text

\* C12: a substitution pass during which the host rejects font-range writes
\* still replaces every resolved match and reports changed.
C12_StylingFailureTolerated ==
    (/\ LastIs("replace")
     /\ ~LookupRejects /\ env.throwing = {} /\ env.rejected # {}
     /\ ~NoneResolves(calls[NCalls].pre.chars)) =>
        /\ calls[NCalls].ret
        /\ CurA.chars = BuildOut(calls[NCalls].pre.chars, store,
                                 Scan(calls[NCalls].pre.chars), 1, 0)

\* C20: a substitution pass cut short after its Backup write holds a Backup of
\* the text it started from, whatever prefix of its host calls ran; and the
\* restoration that follows returns the text to the one before the pass.
C20_BackupRecoverable ==
    /\ LastIs("aborted") =>
           /\ HasBackup(CurA)
           /\ CurA.backup.original = calls[NCalls].pre.chars
    /\ LastTwo("aborted", "restore") =>
           CurA.chars = calls[NCalls - 1].pre.chars

(***************************************************************************)
(* Observations on the runtime                                             *)
(***************************************************************************)
\* C7 as claimed: an element on which no pass is in flight holds a Backup if and
\* only if it holds values that a pass substituted and no pass restored since.
C7_BackupExistence ==
    \A e \in Elements : Settled(e) => (HasBackup(nodes[e]) <=> subst[e] # "none")

\* C7 as amended: an element on which no pass is in flight holds a Backup if and
\* only if it holds values that a pass substituted, that no pass restored since
\* and that no later substitution pass scanned without finding an actionable match.
C7_BackupUnlessRescanned ==
    \A e \in Elements : Settled(e) => (HasBackup(nodes[e]) <=> subst[e] = "substituted")

C7_Witness ==
    /\ Settled("A")
    /\ subst["A"] = "rescanned"
    /\ ~HasBackup(nodes["A"])
    /\ nodes["A"].chars # orig["A"].chars

\* A held placeholders, at least one of which resolves
AHoldsResolvable ==
    \E i \in 1..Len(Scan(orig["A"].chars)) : Resolved(Scan(orig["A"].chars)[i])

\* the handler has processed exactly the selections h, each to its end, with no
\* invocation dropped and no UI pass
Processed(h) == clean /\ proc["sel"].pc = "idle" /\ hlog = h

\* C8: after the handler processed sole-selection A then sole-selection B, A shows
\* the substituted text and holds a Backup; after it then processed sole-selection
\* A again, A shows its original text and holds no Backup.
C8_SelectionCycle ==
    AHoldsResolvable =>
        /\ Processed(<<"A", "B">>) =>
              /\ nodes["A"].chars = BuildOut(orig["A"].chars, store, Scan(orig["A"].chars), 1, 0)
              /\ HasBackup(nodes["A"])
        /\ Processed(<<"A", "B", "A">>) =>
              /\ nodes["A"].chars = orig["A"].chars
              /\ ~HasBackup(nodes["A"])

\* no timer is armed and no handler invocation or UI message is in flight
AtRest == ~timer /\ \A p \in Procs : proc[p].pc = "idle"

\* C13: the passes of a run-on-selection message change the text or Backup of
\* selected elements only, and its run-result message holds one flag for each
\* element it processed, in order.
C13_RunOnSelectionScope ==
    proc["ui"].kind = "run" =>
        /\ proc["ui"].touched \subseteq proc["ui"].sel
        /\ proc["ui"].posted =>
               [i \in 1..Len(proc["ui"].results) |-> proc["ui"].results[i].id]
                   = GatherTextNodes(proc["ui"].sel)

\* C16: whenever restorePlaceholdersInNode is about to apply the records of a
\* Backup to an element, the text of the element is the text left by the
\* substitution pass that wrote that Backup.
C16_NoStaleReplay ==
    \A p \in Procs : proc[p].pc = "rs_fonts" =>
        nodes[proc[p].node].chars = produced[proc[p].node]

\* C17: with the feature enabled all along, once the selection events have been
\* handled and no pass is in flight, lastSelectedNodeId is the sole selected
\* element (null when the selection is not one element), and that element holds
\* no Backup unless a UI message forced a pass.
C17_SettledSelection ==
    (featureEnabled /\ ~events.off /\ events.outcome # "none" /\ AtRest) =>
        /\ lastSelectedNodeId = NewId(selection)
        /\ (~events.forced /\ NewId(selection) # Null) => ~HasBackup(nodes[NewId(selection)])

\* C18: a handler invocation that finds the feature off changes neither
\* lastSelectedNodeId, nor the guard, nor the text or Backup of any element.
C18_DisabledHandlerNoOp ==
    [][(timer /\ ~timer' /\ ~featureEnabled)
          => UNCHANGED <<lastSelectedNodeId, processing, nodes>>]_vars

C18_Witness ==
    /\ events.outcome = "off"
    /\ ~timer
    /\ lastSelectedNodeId # Null
    /\ lastSelectedNodeId # events.newId
    /\ HasBackup(nodes["A"])

\* C19: once a handler invocation that was not dropped by the guard has ended,
\* with the feature on or off, lastSelectedNodeId is the newId of that
\* invocation; and, when no invocation was dropped by the guard, the element an
\* edit-finish substitution is started on is the newId of the invocation before.
C19_FocusTracking ==
    /\ (events.outcome \in {"off", "ran"} /\ proc["sel"].pc = "idle")
           => lastSelectedNodeId = events.newId
    /\ (proc["sel"].pc = "getNode" /\ ~events.busy)
           => proc["sel"].node = events.prev

\* C21: whenever no handler invocation is in flight the processing flag is
\* false: every invocation that set it has cleared it when it ended, also when
\* its substitution or restoration pass threw, so that the guard never drops a
\* selection event because of an earlier failed pass.
C21_GuardRelease == proc["sel"].pc = "idle" => ~processing

\* a pass awaited by the handler threw, and the invocation has ended
C21_Witness ==
    /\ events.threw
    /\ proc["sel"].pc = "idle"
    /\ ~processing
    /\ events.outcome = "ran"

\* C22: a restoration that finds a Backup without a replacements array sets the
\* whole text to the Backup's original text, clears the Backup and reports
\* restored when that original text is not empty; when it is empty it reports
\* not-restored and leaves the text as it was.
C22_LegacyFallback ==
    (LastIs("restore") /\ calls[NCalls].pre.backup.kind = "legacy") =>
        LET pre == calls[NCalls].pre
        IN  IF pre.backup.original # <<>>
            THEN /\ CurA.chars = pre.backup.original
                 /\ ~HasBackup(CurA)
                 /\ calls[NCalls].ret
                 /\ ~calls[NCalls].err
            ELSE /\ ~calls[NCalls].ret
                 /\ ~calls[NCalls].err
                 /\ CurA.chars = pre.chars

\* a Backup of the older format with two placeholders was restored over another text
C22_Witness ==
    /\ LastIs("restore")
    /\ calls[NCalls].pre.backup.kind = "legacy"
    /\ calls[NCalls].pre.backup.original = <<"@", "a", " ", "@", "b">>
    /\ calls[NCalls].pre.chars # calls[NCalls].pre.backup.original
    /\ CurA.chars = <<"@", "a", " ", "@", "b">>
    /\ calls[NCalls].ret

\* the records of the Backup of n cannot all be applied to the text of n
RecordsMisfit(n) ==
    /\ n.backup.kind = "records"
    /\ RestoreReps([n |-> n, err |-> FALSE], SortDesc(n.backup.replacements), 1).err

\* C23: a restoration whose Backup read throws, or whose blob is not JSON, does
\* not throw, reports not-restored and leaves the text as it was; and a pass
\* during which writing or clearing the blob throws does not throw because of
\* it: it ends normally unless a restoration record itself cannot be applied,
\* and a substitution goes through with the blob left as it was.
C23_PersistenceFailuresAbsorbed ==
    NCalls >= 1 =>
        LET c == calls[NCalls]
        IN  /\ (c.op = "restore" /\ (c.host.readThrows \/ c.pre.backup.kind = "corrupt"))
                   => (~c.err /\ ~c.ret /\ CurA.chars = c.pre.chars)
            /\ (c.host.writeThrows /\ c.err)
                   => (c.op = "restore" /\ ~c.host.readThrows /\ RecordsMisfit(c.pre))
            /\ (c.host.writeThrows /\ c.op = "replace" /\ c.ret)
                   => (CurA.chars # c.pre.chars /\ CurA.backup = c.pre.backup)

\* a restoration met a failing read on an element that holds substituted text
\* and the records to undo it
C23_Witness ==
    /\ LastIs("restore")
    /\ calls[NCalls].host.readThrows
    /\ calls[NCalls].pre.backup.kind = "records"
    /\ Len(calls[NCalls].pre.backup.replacements) = 2
    /\ ~calls[NCalls].ret
    /\ CurA = calls[NCalls].pre

\* C24: in the whole-text engine a restoration writes the original text of a
\* Backup onto an element only when the text the element holds is the text left
\* by the substitution pass that saved that Backup; text typed after a
\* restoration is never overwritten from an older Backup.
C24_NoStaleRestore ==
    \A i \in 1..Len(calls) :
        (calls[i].op = "restore" /\ calls[i].ret) => calls[i].pre.chars = calls[i].saved

\* C10: the selection handler and a UI message are never both inside a
\* substitution or restoration pass.
C10_MutualExclusion == ~(InPass("sel") /\ InPass("ui"))

====
